---- MODULE Spec2Model ----
(***************************************************************************)
(* Reservation reconciliation pipeline (src/main.py, src/notion_handler.py) *)
(*                                                                         *)
(* The tracking store (a Notion database) is a list of pages; process_pdf  *)
(* looks a reservation number up, decides create / update / skip and       *)
(* writes through create_notion_entry / update_notion_entry.  Staff edit   *)
(* the status column of a page by hand between pipeline calls.             *)
(*                                                                         *)
(* A process_pdf call is one atomic step of Spec (one document at a time), *)
(* followed by its return, which drops what the call left behind.          *)
(* SpecRun is a Gmail-mode run of main: fetch_new_emails, then the jobs.   *)
(* SpecOverlap lets two process_pdf executions interleave on the store.    *)
(* SpecChat is the retry loop of _chat_completion.  SpecStaff adds what    *)
(* staff do to a page by hand beyond moving its status forward.            *)
(* The business columns that travel through _FIELD_MAP unchanged           *)
(* (faculty_email, faculty_name, date, number_of_people, reserved_table)   *)
(* are represented by order_limit, which follows the same path.            *)
(***************************************************************************)
EXTENDS Integers, Sequences, FiniteSets, TLC

VARIABLES
    pages,      \* the store: pages of the database, page id = index
    job,        \* (pdf, res_num, edition) of the process_pdf call, or NoJob
    found,      \* what the call's lookup answered: page_id, stored_ed, status_now
    log,        \* events log_event recorded during the last call, in order
    sent,       \* Telegram messages delivered during the last call
    reads,      \* invocations of the PDF reader and of the GPT extractor
    request,    \* the create / update the last call issued, if any
    raised,     \* the collaborator call whose exception ended the last call
    run,        \* a run of main: downloads/, the jobs fetched, their outcomes
    procs,      \* process_pdf executions that overlap (two cron runs)
    chat        \* a _chat_completion call: its attempts and its result

vars == <<pages, job, found, log, sent, reads, request, raised, run, procs, chat>>

----------------------------------------------------------------------------
(* Bounds of the model *)

MaxEdition == 2

\* The reservation the jobs are about, and another one already in the store.
ResNums == {1001}
Editions == 0..MaxEdition
\* The extractor may report a number the job does not assert.
GptResNums == {1001, 1002}
OtherRes == CHOOSE r \in GptResNums : r \notin ResNums
Amounts == {500, 700}
Descriptions == {"", "note"}

\* Messages a run of fetch_new_emails examines, PDF parts of one message.
MaxMessages == 2
MaxPdfParts == 2

\* Attempts a caller may allow _chat_completion.
MaxRetries == 3

----------------------------------------------------------------------------
(* Constants of the program *)

\* Mutant: closed is not terminal.
TerminalStatusesWithoutClosed == {"cancelled", "invoice_sent", "paid"}

TERMINAL_STATUSES == {"closed", "cancelled", "invoice_sent", "paid"}

\* Mutant: the lock forgets paid.
HardTerminalNamesInvoiceOnly == {"invoice_sent"}

\* Mutant: the lock holds for cancelled too.
HardTerminalNamesWithCancelled == {"invoice_sent", "paid", "cancelled"}

\* The statuses update_notion_entry refuses to overwrite.
HardTerminalNames == {"invoice_sent", "paid"}

\* The statuses _validate lets through.
GptStatuses == {"future_order", "cancelled", "updated"}

\* The statuses only staff set, by hand, in the database.
StaffStatuses == {"closed", "invoice_sent", "paid"}

NoPage == 0
NoEdition == -1
NoStatus == "None"

\* _FIELD_MAP: input key -> <<column, column type>>
FIELD_MAP ==
    [reservation_number |-> <<"booking_num", "title">>,
     edition            |-> <<"edition", "select">>,
     order_limit        |-> <<"order_limit", "number">>,
     status             |-> <<"status", "status">>]

----------------------------------------------------------------------------
(* Conversions *)

\* A string of digits is the sequence of its characters.
Digits == <<"0", "1", "2", "3", "4", "5", "6", "7", "8", "9">>

DigitValue(ch) == CHOOSE d \in 0..9 : Digits[d + 1] = ch

\* str(n) of a non-negative integer
RECURSIVE ToStr(_)
ToStr(n) ==
    IF n < 10
    THEN <<Digits[n + 1]>>
    ELSE Append(ToStr(n \div 10), Digits[(n % 10) + 1])

\* int(s) of a string of digits
RECURSIVE ToInt(_)
ToInt(s) ==
    IF Len(s) = 1
    THEN DigitValue(s[1])
    ELSE 10 * ToInt(SubSeq(s, 1, Len(s) - 1)) + DigitValue(s[Len(s)])

\* str.strip()
RECURSIVE Strip(_)
Strip(s) ==
    IF s # <<>> /\ s[1] = " "
    THEN Strip(Tail(s))
    ELSE IF s # <<>> /\ s[Len(s)] = " "
         THEN Strip(SubSeq(s, 1, Len(s) - 1))
         ELSE s

\* str.lower() on the status names of the database
Lower(s) ==
    CASE s = "Paid" -> "paid"
      [] s = "Invoice_sent" -> "invoice_sent"
      [] s = "Closed" -> "closed"
      [] s = "Cancelled" -> "cancelled"
      [] OTHER -> s

Min(S) == CHOOSE x \in S : \A y \in S : x <= y

----------------------------------------------------------------------------
(* The store adapter: queries *)

\* Mutant: the filter is on the edition column.
MatchesEditionColumn(ps, reservation_number) ==
    {i \in 1..Len(ps) :
        ps[i].props["edition"] = Strip(ToStr(reservation_number))}

\* The pages whose title column equals the reservation number.
Matches(ps, reservation_number) ==
    {i \in 1..Len(ps) :
        ps[i].props["booking_num"] = Strip(ToStr(reservation_number))}

\* <<page_id, stored edition>> of the first matching page, else <<None, None>>.
search_notion_by_reservation_number(ps, reservation_number) ==
    LET hits == Matches(ps, reservation_number)
    IN  IF hits # {}
        THEN LET page == ps[Min(hits)]
             IN  <<Min(hits),
                   IF "edition" \in DOMAIN page.props /\ page.props["edition"] # <<>>
                   THEN ToInt(page.props["edition"])
                   ELSE 0>>
        ELSE <<NoPage, NoEdition>>

\* The lower-cased status name of the first matching page, or None.
get_existing_page_status(ps, reservation_number) ==
    LET hits == Matches(ps, reservation_number)
    IN  IF hits # {}
        THEN LET page == ps[Min(hits)]
             IN  IF "status" \in DOMAIN page.props
                 THEN Lower(page.props["status"])
                 ELSE NoStatus
        ELSE NoStatus

----------------------------------------------------------------------------
(* The store adapter: payload shaping *)

\* The input keys of data that reach a column.
MappedKeys(data) == {k \in DOMAIN data : k \in DOMAIN FIELD_MAP}

ColumnValue(data, k) ==
    LET col_type == FIELD_MAP[k][2]
    IN  CASE col_type = "title"  -> ToStr(data[k])
          [] col_type = "select" -> ToStr(data[k])
          [] col_type = "number" -> data[k]
          [] col_type = "status" -> data[k]

\* Notion properties of a data dict, plus the fixed confirmed_booking default.
data_to_properties(data) ==
    LET keys == MappedKeys(data)
        cols == {FIELD_MAP[k][1] : k \in keys}
        KeyOf(col) == CHOOSE k \in keys : FIELD_MAP[k][1] = col
    IN  [col \in cols \cup {"confirmed_booking"} |->
            IF col = "confirmed_booking"
            THEN FALSE
            ELSE ColumnValue(data, KeyOf(col))]

\* {k: v for k, v in data.items() if k != "status"}
WithoutStatus(data) == [k \in (DOMAIN data) \ {"status"} |-> data[k]]

\* pages.update patches the given columns and keeps the others.
Patch(old, new) ==
    [col \in (DOMAIN old) \cup (DOMAIN new) |->
        IF col \in DOMAIN new THEN new[col] ELSE old[col]]

----------------------------------------------------------------------------
(* The state of one process_pdf call, threaded through its steps *)

\* The collaborator call that raises during a call, if it is reached:
\* the two store queries, the PDF reader, the extractor, pages.retrieve,
\* pages.create / pages.update, the Telegram send, blocks.children.append.
FailPoints ==
    {"none", "lookup", "pdf", "gpt", "retrieve", "write", "notify", "block"}

\* What the extractor returns for a document (checked by _validate).
Documents ==
    [reservation_number : GptResNums,
     edition : Editions,
     order_limit : Amounts,
     status : GptStatuses,
     additional_description : Descriptions]

NoRequest == [op |-> "none", page_id |-> NoPage, data |-> <<>>, props |-> <<>>]

NoReads == [pdf |-> 0, gpt |-> 0]

Start(ps, res_num, edition) ==
    [pages |-> ps, res_num |-> res_num, edition |-> edition,
     log |-> <<"start_pdf">>, sent |-> 0, reads |-> NoReads,
     request |-> NoRequest, raised |-> "none", done |-> FALSE,
     page_id |-> NoPage, stored_ed |-> NoEdition, status_now |-> NoStatus,
     gpt |-> <<>>]

\* The except branch of create_notion_entry / update_notion_entry: log, re-raise.
NotionError(c, at) ==
    [c EXCEPT !.log = Append(@, "notion_error"), !.raised = at]

----------------------------------------------------------------------------
(* The store adapter: writes *)

create_notion_entry(c, data, fail) ==
    LET additional_description ==
            IF "additional_description" \in DOMAIN data
            THEN data["additional_description"]
            ELSE ""
        props == data_to_properties(data)
        req == [op |-> "create", page_id |-> NoPage, data |-> data, props |-> props]
        page_id == Len(c.pages) + 1
        created == Append(c.pages, [props |-> props, blocks |-> <<>>])
        c0 == [c EXCEPT !.request = req]
    IN  IF fail = "write"
        THEN NotionError(c0, "write")
        ELSE LET c1 == [c0 EXCEPT !.pages = created]
             IN  IF fail = "notify"
                 THEN NotionError(c1, "notify")
                 ELSE LET c2 == [c1 EXCEPT !.sent = @ + 1]
                      IN  IF additional_description # ""
                          THEN IF fail = "block"
                               THEN NotionError(c2, "block")
                               ELSE [c2 EXCEPT
                                       !.pages[page_id].blocks =
                                           Append(@, additional_description),
                                       !.log = Append(@, "notion_created")]
                          ELSE [c2 EXCEPT !.log = Append(@, "notion_created")]

update_notion_entry(c, page_id, data, fail) ==
    LET req == [op |-> "update", page_id |-> page_id, data |-> data, props |-> <<>>]
        c0 == [c EXCEPT !.request = req]
    IN  IF fail = "retrieve"
        THEN NotionError(c0, "retrieve")
        ELSE LET current_page == c.pages[page_id]
                 before_status ==
                     IF "status" \in DOMAIN current_page.props
                     THEN current_page.props["status"]
                     ELSE ""
                 kept == IF before_status \in HardTerminalNames
                         THEN WithoutStatus(data)
                         ELSE data
                 props == data_to_properties(kept)
                 c1 == [c0 EXCEPT !.request.props = props]
             IN  IF DOMAIN props # {}
                 THEN IF fail = "write"
                      THEN NotionError(c1, "write")
                      ELSE LET c2 == [c1 EXCEPT
                                        !.pages[page_id].props = Patch(@, props)]
                           IN  IF fail = "notify"
                               THEN NotionError(c2, "notify")
                               ELSE [c2 EXCEPT !.sent = @ + 1,
                                               !.log = Append(@, "notion_updated")]
                 ELSE c0

----------------------------------------------------------------------------
(* process_pdf, step by step *)

\* The except branch of process_pdf.
PdfError(c) == [c EXCEPT !.log = Append(@, "pdf_error"), !.done = TRUE]

\* The two store queries that open process_pdf; they stand outside its try,
\* so what they raise leaves process_pdf.
StageLookup(c, fail) ==
    IF fail = "lookup"
    THEN [c EXCEPT !.raised = "lookup", !.done = TRUE]
    ELSE LET hit == search_notion_by_reservation_number(c.pages, c.res_num)
         IN  [c EXCEPT !.page_id = hit[1],
                       !.stored_ed = hit[2],
                       !.status_now = get_existing_page_status(c.pages, c.res_num)]

\* Mutant: the early test with < for <=.
EarlySkipStrict(page_id, edition, stored_ed, status_now) ==
    /\ page_id # NoPage
    /\ edition < stored_ed
    /\ status_now \in TERMINAL_STATUSES

\* if page_id and edition <= stored_ed and status_now in TERMINAL_STATUSES
EarlySkip(page_id, edition, stored_ed, status_now) ==
    /\ page_id # NoPage
    /\ edition <= stored_ed
    /\ status_now \in TERMINAL_STATUSES

StageEarlySkip(c) ==
    IF c.done
    THEN c
    ELSE IF EarlySkip(c.page_id, c.edition, c.stored_ed, c.status_now)
         THEN [c EXCEPT !.log = Append(@, "skip_terminal"), !.done = TRUE]
         ELSE c

\* 1) Parse PDF + GPT, and the reservation-number comparison.
StageExtract(c, doc, fail) ==
    IF c.done
    THEN c
    ELSE LET c1 == [c EXCEPT !.reads.pdf = @ + 1]
         IN  IF fail = "pdf"
             THEN PdfError([c1 EXCEPT !.raised = "pdf"])
             ELSE LET c2 == [c1 EXCEPT !.reads.gpt = @ + 1]
                  IN  IF fail = "gpt"
                      THEN PdfError([c2 EXCEPT !.raised = "gpt"])
                      ELSE [c2 EXCEPT
                              !.gpt = doc,
                              !.log = IF doc.reservation_number # c.res_num
                                      THEN Append(@, "res_num_mismatch")
                                      ELSE @]

\* Mutant: the edition the extractor read is kept.
EnforceReservationOnly(gpt, res_num, edition) ==
    [gpt EXCEPT !.reservation_number = res_num]

\* Mutant: the numbers the extractor read are kept.
KeepExtractedNumbers(gpt, res_num, edition) == gpt

\* Enforce authoritative values.
EnforceAuthoritative(gpt, res_num, edition) ==
    [gpt EXCEPT !.reservation_number = res_num, !.edition = edition]

\* Mutant: a cancellation keeps every extracted field.
KeepAllFields(gpt, res_num, edition) == gpt

\* 2) Minimal dict for cancellations.
MinimalIfCancelled(gpt, res_num, edition) ==
    IF gpt.status = "cancelled"
    THEN [reservation_number |-> res_num, edition |-> edition, status |-> "cancelled"]
    ELSE gpt

StageShape(c) ==
    IF c.done
    THEN c
    ELSE [c EXCEPT !.gpt = MinimalIfCancelled(
                               EnforceAuthoritative(@, c.res_num, c.edition),
                               c.res_num, c.edition)]

\* Mutant: >= for >.
IsNewerOrEqual(edition, stored_ed) == edition >= stored_ed

\* if edition > stored_ed
IsNewer(edition, stored_ed) == edition > stored_ed

\* The end of the try block: pdf_ok, or the except branch.
Finish(c) ==
    IF c.raised # "none"
    THEN PdfError(c)
    ELSE [c EXCEPT !.log = Append(@, "pdf_ok"), !.done = TRUE]

\* 3) Create or Update.
StageWrite(c, fail) ==
    IF c.done
    THEN c
    ELSE IF c.page_id = NoPage
         THEN Finish(create_notion_entry(c, c.gpt, fail))
         ELSE IF IsNewer(c.edition, c.stored_ed)
              THEN Finish(update_notion_entry(c, c.page_id, c.gpt, fail))
              ELSE [c EXCEPT !.log = Append(@, "skip_old_edition"), !.done = TRUE]

\* Mutant: the document is parsed and extracted before the early skip test.
process_pdf_extract_first(ps, doc, res_num, edition, fail) ==
    StageWrite(
        StageShape(
            StageEarlySkip(
                StageExtract(
                    StageLookup(Start(ps, res_num, edition), fail),
                    doc, fail))),
        fail)

process_pdf(ps, doc, res_num, edition, fail) ==
    StageWrite(
        StageShape(
            StageExtract(
                StageEarlySkip(
                    StageLookup(Start(ps, res_num, edition), fail)),
                doc, fail)),
        fail)

----------------------------------------------------------------------------
(* The state machine *)

\* A job's pdf is given by what the extractor reads in it.
NoJob == [pdf |-> <<>>, res_num |-> 0, edition |-> 0]

NotFound == [page_id |-> NoPage, stored_ed |-> NoEdition, status_now |-> NoStatus]

\* A page the pipeline created for another reservation, since paid.
OtherPage ==
    [props |-> [booking_num |-> ToStr(OtherRes), edition |-> ToStr(1),
                status |-> "paid", order_limit |-> 500,
                confirmed_booking |-> FALSE],
     blocks |-> <<>>]

\* No run of main has started; downloads/ is empty.
NoMessage == [matched |-> FALSE, res_num |-> 0, edition |-> 0, pdfs |-> 0]

NoRun ==
    [pc |-> "idle", files |-> {}, existing_files |-> {}, examined |-> 0,
     msg |-> NoMessage, downloaded |-> <<>>, jobs |-> <<>>, outcomes |-> <<>>]

\* The cron runs whose process_pdf executions may overlap.
CronRuns == {"cron_a", "cron_b"}

\* No overlapping execution, no extractor call under way.
NoExecution == [pc |-> "idle", c |-> <<>>]

NoProcs == [p \in CronRuns |-> NoExecution]

NoChat == [pc |-> "idle", retries |-> 0, attempt |-> 0, calls |-> <<>>,
           delay |-> 0, slept |-> <<>>, result |-> "none"]

Init ==
    /\ pages = <<OtherPage>>
    /\ job = NoJob
    /\ found = NotFound
    /\ log = <<>>
    /\ sent = 0
    /\ reads = NoReads
    /\ request = NoRequest
    /\ raised = "none"
    /\ run = NoRun
    /\ procs = NoProcs
    /\ chat = NoChat

\* One process_pdf call on a document, from its log_event(start_pdf) to its return.
ProcessPdf ==
    /\ job = NoJob
    /\ \E res_num \in ResNums, edition \in Editions,
          doc \in Documents, fail \in FailPoints :
          \E c \in {process_pdf(pages, doc, res_num, edition, fail)} :
            /\ pages' = c.pages
            /\ job' = [pdf |-> doc, res_num |-> res_num, edition |-> edition]
            /\ found' = [page_id |-> c.page_id, stored_ed |-> c.stored_ed,
                         status_now |-> c.status_now]
            /\ log' = c.log
            /\ sent' = c.sent
            /\ reads' = c.reads
            /\ request' = c.request
            /\ raised' = c.raised
    /\ UNCHANGED <<run, procs, chat>>

\* process_pdf has returned (or raised): its locals are gone, the store stays.
Return ==
    /\ job # NoJob
    /\ job' = NoJob
    /\ found' = NotFound
    /\ log' = <<>>
    /\ sent' = 0
    /\ reads' = NoReads
    /\ request' = NoRequest
    /\ raised' = "none"
    /\ UNCHANGED <<pages, run, procs, chat>>

\* Staff set the status of a reservation's page by hand, between pipeline calls.
StaffSetStatus ==
    /\ job = NoJob
    /\ \E res_num \in ResNums, s \in StaffStatuses :
         \E i \in Matches(pages, res_num) :
            pages' = [pages EXCEPT ![i].props = Patch(@, [status |-> s])]
    /\ UNCHANGED <<job, found, log, sent, reads, request, raised>>
    /\ UNCHANGED <<run, procs, chat>>

Next == ProcessPdf \/ Return \/ StaffSetStatus

Spec == Init /\ [][Next]_vars

----------------------------------------------------------------------------
(* Reading a state: what a call did, what the store holds *)

\* This step is a process_pdf call.
Called == job = NoJob /\ job' # NoJob

\* The event that ended the call; "raised" when an exception left process_pdf.
Outcome ==
    IF job = NoJob
    THEN "idle"
    ELSE IF raised = "lookup" THEN "raised" ELSE log[Len(log)]

\* The records of a reservation number, read off the title column.
RecordsOf(ps, r) == {i \in 1..Len(ps) : ToInt(ps[i].props["booking_num"]) = r}

HasRecord(ps, r) == RecordsOf(ps, r) # {}

RecordOf(ps, r) == ps[CHOOSE i \in RecordsOf(ps, r) : TRUE]

StoredEdition(ps, r) == ToInt(RecordOf(ps, r).props["edition"])

StoredStatus(ps, r) == RecordOf(ps, r).props["status"]

\* The status sets of the data model.
TerminalSet == {"closed", "cancelled", "invoice_sent", "paid"}

HardTerminalSet == {"invoice_sent", "paid"}

----------------------------------------------------------------------------
\* C1 (I1, monotonic edition): over sequential process_pdf calls no page is
\* removed or renumbered and no stored edition decreases; every update a call
\* issues targets the record of the job's reservation and carries an edition
\* strictly greater than the edition that record holds at that moment; a
\* create, which may carry any edition, is issued only when the reservation
\* has no record.
C1_MonotonicEdition ==
    [][ /\ Len(pages') >= Len(pages)
        /\ \A i \in 1..Len(pages) :
              /\ pages'[i].props["booking_num"] = pages[i].props["booking_num"]
              /\ ToInt(pages'[i].props["edition"]) >= ToInt(pages[i].props["edition"])
        /\ (Called /\ request'.op = "update") =>
              /\ request'.page_id \in RecordsOf(pages, job'.res_num)
              /\ request'.data["edition"] >
                    ToInt(pages[request'.page_id].props["edition"])
              /\ "edition" \in DOMAIN request'.props =>
                    ToInt(request'.props["edition"]) >
                        ToInt(pages[request'.page_id].props["edition"])
        /\ (Called /\ request'.op = "create") =>
              ~HasRecord(pages, job'.res_num)
      ]_vars

\* An update went through with a newer edition, after a create of edition > 0.
C1_Witness ==
    /\ request.op = "update"
    /\ Outcome = "pdf_ok"
    /\ found.stored_ed > 0
    /\ job.edition > found.stored_ed
    /\ StoredEdition(pages, job.res_num) = job.edition

----------------------------------------------------------------------------
\* C2 (I2/P3, terminal floor): when process_pdf is called for a reservation
\* whose record has a terminal status, with an edition <= the stored edition,
\* the call changes nothing in the store, issues no create or update and sends
\* no notification, whatever the document holds; and once the lookup has
\* answered, the call ends as skip_terminal.
C2_TerminalFloor ==
    [][ ( /\ Called
          /\ HasRecord(pages, job'.res_num)
          /\ StoredStatus(pages, job'.res_num) \in TerminalSet
          /\ job'.edition <= StoredEdition(pages, job'.res_num) )
        => /\ pages' = pages
           /\ request'.op = "none"
           /\ sent' = 0
           /\ raised' \in {"none", "lookup"}
           /\ raised' = "none" => Outcome' = "skip_terminal"
      ]_vars

\* A call on a cancelled record, with the stored edition itself, was skipped.
C2_Witness ==
    /\ Outcome = "skip_terminal"
    /\ StoredStatus(pages, job.res_num) = "cancelled"
    /\ job.edition = StoredEdition(pages, job.res_num)
    /\ job.pdf.status = "updated"

----------------------------------------------------------------------------
\* C3 (I3/P4, hard-terminal status lock): when the stored status is
\* invoice_sent or paid and process_pdf is called with a strictly newer
\* edition, the stored status is the same after the call, for every incoming
\* status; the call is never skipped; once lookup, extraction and the store
\* calls have succeeded the record holds the new edition and the payload's
\* order_limit; and when nothing raised the call ends as Updated (pdf_ok after
\* notion_updated).
C3_HardTerminalLock ==
    [][ ( /\ Called
          /\ HasRecord(pages, job'.res_num)
          /\ StoredStatus(pages, job'.res_num) \in HardTerminalSet
          /\ job'.edition > StoredEdition(pages, job'.res_num) )
        => /\ StoredStatus(pages', job'.res_num) = StoredStatus(pages, job'.res_num)
           /\ Outcome' \notin {"skip_terminal", "skip_old_edition"}
           /\ raised' \in {"none", "notify"} =>
                 /\ request'.op = "update"
                 /\ StoredEdition(pages', job'.res_num) = job'.edition
                 /\ job'.pdf.status # "cancelled" =>
                       RecordOf(pages', job'.res_num).props["order_limit"]
                           = job'.pdf.order_limit
           /\ raised' = "none" =>
                 /\ Outcome' = "pdf_ok"
                 /\ log'[Len(log') - 1] = "notion_updated"
      ]_vars

\* Scenario C: a paid record took a newer edition and a new order_limit.
C3_Witness ==
    /\ Outcome = "pdf_ok"
    /\ request.op = "update"
    /\ found.status_now = "paid"
    /\ job.pdf.status = "updated"
    /\ job.pdf.order_limit = 700
    /\ StoredStatus(pages, job.res_num) = "paid"
    /\ RecordOf(pages, job.res_num).props["order_limit"] = 700

----------------------------------------------------------------------------
\* C4 as claimed (I4/P5): when the extracted status is cancelled, the payload
\* persisted by create or update holds exactly reservation_number, edition
\* and status and no other field.
C4_PayloadExactlyThree ==
    ( /\ request.op \in {"create", "update"}
      /\ job.pdf.status = "cancelled"
      /\ DOMAIN request.props # {} )
    => DOMAIN request.props = {"booking_num", "edition", "status"}

\* C4 as amended: when the extracted status is cancelled, the dict process_pdf
\* hands to create or update is exactly {reservation_number, edition, status}
\* with the asserted numbers; the properties sent to the store are booking_num,
\* edition, the fixed default confirmed_booking = False, and status unless the
\* update is of an invoice_sent / paid record; no other extracted field is
\* sent and a created page gets no description block, whatever the extractor
\* returned.
C4_CancellationMinimal ==
    [][ ( /\ Called
          /\ request'.op # "none"
          /\ job'.pdf.status = "cancelled" )
        => LET locked == /\ request'.op = "update"
                         /\ StoredStatus(pages, job'.res_num) \in HardTerminalSet
               sentProps == request'.props
           IN  /\ request'.data =
                     [reservation_number |-> job'.res_num,
                      edition |-> job'.edition,
                      status |-> "cancelled"]
               /\ DOMAIN sentProps # {} =>
                     /\ DOMAIN sentProps =
                           {"booking_num", "edition", "confirmed_booking"}
                              \cup (IF locked THEN {} ELSE {"status"})
                     /\ ToInt(sentProps["booking_num"]) = job'.res_num
                     /\ ToInt(sentProps["edition"]) = job'.edition
                     /\ sentProps["confirmed_booking"] = FALSE
                     /\ ~locked => sentProps["status"] = "cancelled"
               /\ (request'.op = "create" /\ raised' # "write") =>
                     /\ Len(pages') = Len(pages) + 1
                     /\ pages'[Len(pages')] = [props |-> sentProps, blocks |-> <<>>]
      ]_vars

\* A cancellation notice carrying an amount and a description created a page.
C4_Witness ==
    /\ Outcome = "pdf_ok"
    /\ request.op = "create"
    /\ job.pdf.status = "cancelled"
    /\ job.pdf.order_limit = 700
    /\ job.pdf.additional_description = "note"
    /\ job.pdf.reservation_number # job.res_num

----------------------------------------------------------------------------
\* The reference policy of the design (Edition/Status Policy).
Policy(has_record, stored_edition, stored_status, incoming_edition) ==
    IF ~has_record THEN "Create"
    ELSE IF stored_status \in TerminalSet /\ incoming_edition <= stored_edition
         THEN "SkipTerminal"
    ELSE IF incoming_edition <= stored_edition THEN "SkipStale"
    ELSE IF stored_status \in HardTerminalSet THEN "UpdateSuppressStatus"
    ELSE "UpdateWriteStatus"

PolicyBefore(ps, r, incoming_edition) ==
    IF HasRecord(ps, r)
    THEN Policy(TRUE, StoredEdition(ps, r), StoredStatus(ps, r), incoming_edition)
    ELSE Policy(FALSE, NoEdition, NoStatus, incoming_edition)

\* The action a call took, read off its events and its store request.
Taken ==
    CASE Outcome = "skip_terminal" -> "SkipTerminal"
      [] Outcome = "skip_old_edition" -> "SkipStale"
      [] request.op = "create" -> "Create"
      [] request.op = "update" /\ DOMAIN request.props # {} ->
            IF "status" \in DOMAIN request.props
            THEN "UpdateWriteStatus"
            ELSE "UpdateSuppressStatus"
      [] OTHER -> "Undecided"

\* C5 (edition/status policy): for every stored (edition, status) or none and
\* every incoming edition, the action process_pdf + update_notion_entry take
\* is the one the reference policy gives: Create without a record, whatever
\* the edition; SkipTerminal; SkipStale, equal editions included; Update with
\* the status suppressed on invoice_sent / paid; Update with the status
\* written otherwise, closed and cancelled included.  A call that a failing
\* collaborator ends before the decision takes no action, and is never one the
\* policy would skip as terminal.
C5_PolicyAgrees ==
    [][ Called =>
        LET policy == PolicyBefore(pages, job'.res_num, job'.edition)
        IN  /\ Taken' # "Undecided" => Taken' = policy
            /\ raised' \in {"none", "write", "notify", "block"} =>
                  Taken' # "Undecided"
            /\ raised' \in {"pdf", "gpt"} => policy # "SkipTerminal"
            /\ raised' = "retrieve" =>
                  policy \in {"UpdateSuppressStatus", "UpdateWriteStatus"}
      ]_vars

\* A closed record took a newer edition, status written.
C5_Witness ==
    /\ Outcome = "pdf_ok"
    /\ Taken = "UpdateWriteStatus"
    /\ found.status_now = "closed"
    /\ StoredStatus(pages, job.res_num) = job.pdf.status

----------------------------------------------------------------------------
\* The same job again, on the store as the call left it.
Again(fail) == process_pdf(pages, job.pdf, job.res_num, job.edition, fail)

\* C6 as claimed (P2, idempotence): after a call that ended as Created or
\* Updated, the same call again ends as skip_old_edition with no store
\* mutation, for every document, cancelled ones included.
C6_SecondCallIsStale ==
    Outcome = "pdf_ok" =>
        /\ Again("none").pages = pages
        /\ Again("none").log[Len(Again("none").log)] = "skip_old_edition"

\* C6 as amended: after a call that ended as Created or Updated, the same call
\* again is skipped with no store mutation, no request and no notification:
\* as skip_old_edition when the stored status is then not terminal, as
\* skip_terminal when it is (the document was a cancellation, or the record is
\* invoice_sent / paid); and whichever collaborator fails in the second call,
\* the store is not touched.
C6_Idempotent ==
    Outcome = "pdf_ok" =>
        /\ \A fail \in FailPoints :
              /\ Again(fail).pages = pages
              /\ Again(fail).request.op = "none"
              /\ Again(fail).sent = 0
        /\ Again("none").raised = "none"
        /\ Again("none").log[Len(Again("none").log)] =
              IF StoredStatus(pages, job.res_num) \in TerminalSet
              THEN "skip_terminal"
              ELSE "skip_old_edition"

\* The cancellation that created the record came in again and was skipped as
\* terminal.
C6_Witness ==
    /\ Outcome = "skip_terminal"
    /\ job.pdf.status = "cancelled"
    /\ found.status_now = "cancelled"
    /\ found.stored_ed = job.edition
    /\ DOMAIN RecordOf(pages, job.res_num).props =
          {"booking_num", "edition", "status", "confirmed_booking"}

----------------------------------------------------------------------------
\* C7 (P1, monotonicity): in a sequence of calls on one reservation number
\* with non-decreasing asserted editions, each asserted edition is >= the
\* stored one (or there is no record yet); for every such call in which the
\* lookup, the extraction and the store call succeed, the reservation then has
\* exactly one record and its stored edition is the asserted edition, the
\* maximum seen so far.  A terminal skip is such a call only with the stored
\* edition itself, and leaves it stored.
C7_StoredIsMaxAsserted ==
    [][ ( /\ Called
          /\ raised' \in {"none", "notify", "block"}
          /\ HasRecord(pages, job'.res_num) =>
                job'.edition >= StoredEdition(pages, job'.res_num) )
        => /\ Cardinality(RecordsOf(pages', job'.res_num)) = 1
           /\ StoredEdition(pages', job'.res_num) = job'.edition
      ]_vars

\* Editions 0 .. MaxEdition came in order; the last one is stored.
C7_Witness ==
    /\ Outcome = "pdf_ok"
    /\ request.op = "update"
    /\ job.edition = MaxEdition
    /\ found.stored_ed = MaxEdition - 1
    /\ found.stored_ed >= 1
    /\ StoredEdition(pages, job.res_num) = MaxEdition

----------------------------------------------------------------------------
\* C8 (early skip ordering): a call that ends as skip_terminal has invoked
\* neither the PDF reader nor the extractor; start_pdf and skip_terminal are
\* its only events.
C8_SkipBeforeExtraction ==
    Outcome = "skip_terminal" =>
        /\ reads.pdf = 0
        /\ reads.gpt = 0
        /\ log = <<"start_pdf", "skip_terminal">>

\* Scenario D: a closed record, an older edition.
C8_Witness ==
    /\ Outcome = "skip_terminal"
    /\ found.status_now = "closed"
    /\ job.edition < found.stored_ed

----------------------------------------------------------------------------
NotMismatchEvent(e) == e # "res_num_mismatch"

\* C9 (authoritative asserted values): in every create or update a call
\* issues, the reservation_number and the edition of the payload, and the
\* title and edition columns sent, are the asserted ones, whatever the
\* extractor returned; and a mismatch does not abort: the store, the request
\* and the events of the call, res_num_mismatch aside, are those of the same
\* call on a document whose extracted numbers agree with the asserted ones.
C9_AssertedValuesWin ==
    [][ Called =>
        /\ request'.op # "none" =>
              /\ request'.data["reservation_number"] = job'.res_num
              /\ request'.data["edition"] = job'.edition
              /\ DOMAIN request'.props # {} =>
                    /\ ToInt(request'.props["booking_num"]) = job'.res_num
                    /\ ToInt(request'.props["edition"]) = job'.edition
        /\ LET agreeing == [job'.pdf EXCEPT !.reservation_number = job'.res_num,
                                            !.edition = job'.edition]
               c == process_pdf(pages, agreeing, job'.res_num, job'.edition, raised')
           IN  /\ c.pages = pages'
               /\ c.request = request'
               /\ c.raised = raised'
               /\ c.log = SelectSeq(log', NotMismatchEvent)
      ]_vars

\* The extractor read another reservation number and another edition; the
\* update went through with the asserted ones.
C9_Witness ==
    /\ Outcome = "pdf_ok"
    /\ request.op = "update"
    /\ job.pdf.reservation_number # job.res_num
    /\ job.pdf.edition # job.edition
    /\ log[2] = "res_num_mismatch"
    /\ StoredEdition(pages, job.res_num) = job.edition

----------------------------------------------------------------------------
\* C10 as claimed (no mutation on failure): a call that ends as pdf_error
\* leaves the store as it was before the call, and a create never leaves a
\* page without the description block of its document.
C10_NoMutationOnFailure ==
    [][ Called =>
        /\ Outcome' = "pdf_error" => pages' = pages
        /\ (request'.op = "create" /\ Len(pages') > Len(pages)) =>
              pages'[Len(pages')].blocks =
                  IF request'.data["status"] # "cancelled"
                     /\ request'.data["additional_description"] # ""
                  THEN <<request'.data["additional_description"]>>
                  ELSE <<>>
      ]_vars

----------------------------------------------------------------------------
\* C12 as claimed (notification failures are swallowed): when notify_change
\* fails during a create or an update, the failure does not end the call: the
\* call still ends as pdf_ok after notion_created / notion_updated, and a
\* created page still gets the description block of its document.
C12_NotificationSwallowed ==
    (job # NoJob /\ raised = "notify") =>
        /\ Outcome = "pdf_ok"
        /\ log[Len(log) - 1] \in {"notion_created", "notion_updated"}
        /\ ( /\ request.op = "create"
              /\ "additional_description" \in DOMAIN request.data
              /\ request.data["additional_description"] # "" )
           => pages[Len(pages)].blocks = <<request.data["additional_description"]>>

----------------------------------------------------------------------------
\* C13 as claimed (notification count per outcome): a call that ends as
\* Created or Updated (pdf_ok) has sent exactly one notification; a call that
\* ends as skip_terminal, skip_old_edition or pdf_error has sent none.
C13_NotificationCount ==
    /\ Outcome = "pdf_ok" => sent = 1
    /\ Outcome \in {"skip_terminal", "skip_old_edition", "pdf_error"} => sent = 0

----------------------------------------------------------------------------
\* C14 (key uniqueness and lifecycle): over sequential process_pdf calls the
\* store never holds two records with the same reservation number; a page is
\* added only by a create, one at a time, and only when the lookup of the
\* call found no record of the job's number; a page, once there, keeps its
\* place and its number: it is never deleted or created again.
C14_OneRecordPerKey ==
    [][ /\ \A r \in GptResNums : Cardinality(RecordsOf(pages', r)) <= 1
        /\ Len(pages') \in {Len(pages), Len(pages) + 1}
        /\ \A i \in 1..Len(pages) :
              ToInt(pages'[i].props["booking_num"]) =
                  ToInt(pages[i].props["booking_num"])
        /\ Len(pages') > Len(pages) =>
              /\ Called
              /\ request'.op = "create"
              /\ found'.page_id = NoPage
              /\ RecordsOf(pages, job'.res_num) = {}
              /\ RecordsOf(pages', job'.res_num) = {Len(pages')}
        /\ (Called /\ HasRecord(pages, job'.res_num)) =>
              /\ request'.op # "create"
              /\ RecordsOf(pages', job'.res_num) = RecordsOf(pages, job'.res_num)
      ]_vars

\* The record a first call created, with its description block, was updated
\* in place by a later call; it is still the only record of its number.
C14_Witness ==
    /\ Outcome = "pdf_ok"
    /\ request.op = "update"
    /\ request.page_id = Len(pages)
    /\ RecordsOf(pages, job.res_num) = {request.page_id}
    /\ pages[request.page_id].blocks # <<>>
    /\ Len(pages) = Len(<<OtherPage>>) + 1

----------------------------------------------------------------------------
(* fetch_new_emails: one message of the Gmail result at a time *)

\* What the loop reads in a message: whether RE_RES_INFO matched, the numbers
\* it captured, the PDF parts of the payload.
Messages ==
    [matched : BOOLEAN, res_num : ResNums, edition : Editions,
     pdfs : 1..MaxPdfParts]

\* f"RES_{res_num}_{edition_int}.pdf"
FileName(res_num, edition_int) ==
    <<"RES_", ToStr(res_num), "_", ToStr(edition_int), ".pdf">>

\* Mutant: the pre-filter with < for <=.
NothingNewStrict(page_id, edition_int, stored_edition) ==
    page_id # NoPage /\ edition_int < stored_edition

\* if page_id and edition_int <= stored_edition: continue  # nothing new
NothingNew(page_id, edition_int, stored_edition) ==
    page_id # NoPage /\ edition_int <= stored_edition

\* Mutant: the name of a downloaded file is not remembered.
DownloadPartForgetful(st, msg, new_name) ==
    [st EXCEPT
       !.files = @ \cup {new_name},
       !.downloaded = Append(@, [file_path |-> new_name,
                                 reservation_number |-> msg.res_num,
                                 edition |-> msg.edition])]

\* write_bytes, downloaded.append, existing_files.add
DownloadPart(st, msg, new_name) ==
    [st EXCEPT
       !.files = @ \cup {new_name},
       !.downloaded = Append(@, [file_path |-> new_name,
                                 reservation_number |-> msg.res_num,
                                 edition |-> msg.edition]),
       !.existing_files = @ \cup {new_name}]

\* for part in msg["payload"].get("parts", [])
RECURSIVE HandleAttachments(_, _, _)
HandleAttachments(st, msg, parts) ==
    IF parts = 0
    THEN st
    ELSE LET new_name == FileName(msg.res_num, msg.edition)
         IN  IF new_name \in st.existing_files
             THEN HandleAttachments(st, msg, parts - 1)
             ELSE HandleAttachments(DownloadPart(st, msg, new_name), msg, parts - 1)

\* The body of "for meta in msgs_meta".
ExamineMessage(st, ps, msg) ==
    LET seen == [st EXCEPT !.examined = @ + 1, !.msg = msg]
        hit == search_notion_by_reservation_number(ps, msg.res_num)
    IN  IF ~msg.matched
        THEN seen
        ELSE IF NothingNew(hit[1], msg.edition, hit[2])
             THEN seen
             ELSE HandleAttachments(seen, msg, msg.pdfs)

----------------------------------------------------------------------------
(* main: a Gmail-mode run *)

\* What the extractor reads in the PDF of a job.
JobDocuments(res_num, edition) ==
    {d \in Documents :
        /\ d.reservation_number = res_num
        /\ d.edition = edition
        /\ d.order_limit = Min(Amounts)
        /\ d.additional_description = "note"}

\* Mutant: the names on disk are not read; the set starts empty.
ExistingFilesUnread(files) == {}

\* existing_files = {p.name for p in DOWNLOAD_DIR.glob("*.pdf")}
ExistingFiles(files) == files

\* main() is started (by cron) once the previous run has ended.
RunStart ==
    /\ run.pc \in {"idle", "ok", "error"}
    /\ job = NoJob
    /\ run' = [pc |-> "fetch", files |-> run.files,
               existing_files |-> ExistingFiles(run.files), examined |-> 0,
               msg |-> NoMessage,
               downloaded |-> <<>>, jobs |-> <<>>, outcomes |-> <<>>]
    /\ UNCHANGED <<pages, job, found, log, sent, reads, request, raised>>
    /\ UNCHANGED <<procs, chat>>

\* fetch_new_emails examines the next message.
FetchMessage ==
    /\ run.pc = "fetch"
    /\ run.examined < MaxMessages
    /\ \E msg \in Messages : run' = ExamineMessage(run, pages, msg)
    /\ UNCHANGED <<pages, job, found, log, sent, reads, request, raised>>
    /\ UNCHANGED <<procs, chat>>

\* fetch_new_emails returns downloaded; main turns it into pdf_jobs.
FetchReturn ==
    /\ run.pc = "fetch"
    /\ run' = [run EXCEPT !.pc = "jobs", !.msg = NoMessage,
                          !.jobs = run.downloaded]
    /\ UNCHANGED <<pages, job, found, log, sent, reads, request, raised>>
    /\ UNCHANGED <<procs, chat>>

\* step B: process_pdf(path, res, ed) on the next job.  What process_pdf
\* raises is not caught by the loop: main logs pipeline_error and re-raises.
RunJob ==
    /\ run.pc = "jobs"
    /\ run.jobs # <<>>
    /\ LET j == Head(run.jobs)
       IN  \E doc \in JobDocuments(j.reservation_number, j.edition),
              fail \in FailPoints :
             \E c \in {process_pdf(pages, doc, j.reservation_number,
                                   j.edition, fail)} :
               /\ pages' = c.pages
               /\ run' =
                     IF c.raised = "lookup"
                     THEN [run EXCEPT !.pc = "error"]
                     ELSE [run EXCEPT
                             !.jobs = Tail(@),
                             !.outcomes = Append(@,
                                 [reservation_number |-> j.reservation_number,
                                  edition |-> j.edition,
                                  event |-> c.log[Len(c.log)]])]
    /\ UNCHANGED <<job, found, log, sent, reads, request, raised>>
    /\ UNCHANGED <<procs, chat>>

\* step C and run_ok, after the last job.
RunEnd ==
    /\ run.pc = "jobs"
    /\ run.jobs = <<>>
    /\ run' = [run EXCEPT !.pc = "ok"]
    /\ UNCHANGED <<pages, job, found, log, sent, reads, request, raised>>
    /\ UNCHANGED <<procs, chat>>

NextRun == RunStart \/ FetchMessage \/ FetchReturn \/ RunJob \/ RunEnd

\* The store before the first Gmail-mode run: as in Init, or with the record
\* an earlier --from-downloads run created from a PDF put in downloads/ by
\* hand (under a name of its own, which the model does not keep).
StoresBeforeRuns ==
    {<<OtherPage>>} \cup
    {process_pdf(<<OtherPage>>, doc, res_num, edition, "none").pages :
        <<res_num, edition, doc>> \in
            {t \in ResNums \X Editions \X Documents :
                t[3] \in JobDocuments(t[1], t[2])}}

InitRun ==
    /\ pages \in StoresBeforeRuns
    /\ job = NoJob
    /\ found = NotFound
    /\ log = <<>>
    /\ sent = 0
    /\ reads = NoReads
    /\ request = NoRequest
    /\ raised = "none"
    /\ run = NoRun
    /\ procs = NoProcs
    /\ chat = NoChat

SpecRun == InitRun /\ [][NextRun]_vars

----------------------------------------------------------------------------
\* C11 as claimed (job isolation): an extraction error or a store error,
\* lookup or write, raised while a job is processed never aborts the run of
\* main: the run ends with run_ok, and by then every job fetch_new_emails
\* returned has been processed by process_pdf and has its own outcome.
C11_JobIsolation ==
    /\ run.pc # "error"
    /\ run.pc = "ok" => Len(run.outcomes) = Len(run.downloaded)

----------------------------------------------------------------------------
\* The jobs of a list carry pairwise distinct (reservation_number, edition).
DistinctPairs(jobs) ==
    \A i, j \in 1..Len(jobs) :
        ( /\ jobs[i].reservation_number = jobs[j].reservation_number
          /\ jobs[i].edition = jobs[j].edition ) => i = j

\* C15 (deduplicated input): the list fetch_new_emails builds and returns,
\* and so the job list of a Gmail-mode run, never holds two jobs with the
\* same (reservation_number, edition), whatever messages and PDF parts carry
\* the pair.
C15_NoDuplicateJobs ==
    /\ DistinctPairs(run.downloaded)
    /\ DistinctPairs(run.jobs)
    /\ \A i \in 1..Len(run.downloaded) :
          run.downloaded[i].file_path =
              FileName(run.downloaded[i].reservation_number,
                       run.downloaded[i].edition)

\* A second message with several PDF parts carried one pair: one job for it,
\* after the job of the first message.
C15_Witness ==
    /\ run.pc = "fetch"
    /\ run.examined = MaxMessages
    /\ run.msg.matched
    /\ run.msg.pdfs > 1
    /\ Len(run.downloaded) = MaxMessages
    /\ run.downloaded[Len(run.downloaded)].edition = run.msg.edition

----------------------------------------------------------------------------
\* C16 (intake pre-filter): a job that fetch_new_emails emits while it
\* examines a message is for a reservation number that has no record in the
\* store at that moment, or carries an edition strictly greater than the
\* stored one; and it is the job of the message examined.
C16_PreFilter ==
    [][ (run.pc = "fetch" /\ run'.pc = "fetch") =>
        \A i \in (Len(run.downloaded) + 1)..Len(run'.downloaded) :
            LET j == run'.downloaded[i]
            IN  /\ run'.msg.matched
                /\ j.reservation_number = run'.msg.res_num
                /\ j.edition = run'.msg.edition
                /\ \/ ~HasRecord(pages, j.reservation_number)
                   \/ j.edition > StoredEdition(pages, j.reservation_number)
      ]_vars

\* A job was emitted for an edition above the stored one.
C16_Witness ==
    /\ run.pc = "fetch"
    /\ run.msg.matched
    /\ HasRecord(pages, run.msg.res_num)
    /\ StoredEdition(pages, run.msg.res_num) > 0
    /\ run.msg.edition > StoredEdition(pages, run.msg.res_num)
    /\ Len(run.downloaded) > 0
    /\ run.downloaded[Len(run.downloaded)].edition = run.msg.edition

----------------------------------------------------------------------------
(* Overlapping runs: process_pdf executions interleave at their store calls *)

\* process_pdf from start_pdf to the point where it calls the store adapter
\* to write: the lookup, the early skip, the extraction, the shaping.  All
\* of it reads the store once, at the lookup.
UpToWrite(ps, doc, res_num, edition) ==
    StageShape(
        StageExtract(
            StageEarlySkip(
                StageLookup(Start(ps, res_num, edition), "none")),
            doc, "none"))

\* A run starts process_pdf on a job and gets as far as its write.
OverlapLookup(p) ==
    /\ procs[p].pc = "idle"
    /\ \E res_num \in ResNums, edition \in Editions :
         \E doc \in JobDocuments(res_num, edition) :
           \E c \in {UpToWrite(pages, doc, res_num, edition)} :
              procs' = [procs EXCEPT
                          ![p] = [pc |-> IF c.done THEN "done" ELSE "write",
                                  c |-> [c EXCEPT !.pages = <<>>]]]
    /\ UNCHANGED <<pages, job, found, log, sent, reads, request, raised>>
    /\ UNCHANGED <<run, chat>>

\* The run's create_notion_entry / update_notion_entry (or skip_old_edition),
\* decided on what its lookup answered, acting on the store as it is now.
OverlapWrite(p) ==
    /\ procs[p].pc = "write"
    /\ \E c \in {StageWrite([procs[p].c EXCEPT !.pages = pages], "none")} :
         /\ pages' = c.pages
         /\ procs' = [procs EXCEPT
                         ![p] = [pc |-> "done", c |-> [c EXCEPT !.pages = <<>>]]]
    /\ UNCHANGED <<job, found, log, sent, reads, request, raised>>
    /\ UNCHANGED <<run, chat>>

\* process_pdf returns.
OverlapReturn(p) ==
    /\ procs[p].pc = "done"
    /\ procs' = [procs EXCEPT ![p] = NoExecution]
    /\ UNCHANGED <<pages, job, found, log, sent, reads, request, raised>>
    /\ UNCHANGED <<run, chat>>

NextOverlap ==
    \E p \in CronRuns : OverlapLookup(p) \/ OverlapWrite(p) \/ OverlapReturn(p)

SpecOverlap == Init /\ [][NextOverlap]_vars

----------------------------------------------------------------------------
\* C17 as claimed (per-key serialization under overlap): when process_pdf
\* executions for one reservation number interleave, the edition stored in a
\* page never decreases, and an update never writes an edition <= the
\* edition the page holds at the time of the write.
C17_MonotonicUnderOverlap ==
    [][ /\ \A i \in 1..Len(pages) :
              ToInt(pages'[i].props["edition"]) >= ToInt(pages[i].props["edition"])
        /\ \A p \in CronRuns :
              ( /\ procs[p].pc = "write"
                /\ procs'[p].pc = "done"
                /\ procs'[p].c.request.op = "update" )
              => procs'[p].c.request.data["edition"] >
                    ToInt(pages[procs'[p].c.request.page_id].props["edition"])
      ]_vars

----------------------------------------------------------------------------
(* _chat_completion: the retry loop around the OpenAI call *)

\* def _chat_completion(messages, retries: int = 3); delay = 2
DefaultRetries == 3

InitialDelay == 2

\* except (RateLimitError, APITimeoutError, APIConnectionError, OpenAIError)
CaughtErrors ==
    {"RateLimitError", "APITimeoutError", "APIConnectionError", "OpenAIError"}

\* What one client.chat.completions.create call and the reading of its
\* response end in: the content, an error the loop catches, another exception.
CallOutcomes == {"content"} \cup CaughtErrors \cup {"Exception"}

\* Mutant: the last attempt is told one iteration late.
LastAttemptLate(attempt, retries) == attempt > retries

\* if attempt == retries: raise
LastAttempt(attempt, retries) == attempt = retries

\* analyze_reservation_text (retries = 3) or another caller enters the loop.
ChatCall ==
    /\ chat.pc \in {"idle", "returned", "raised"}
    /\ \E retries \in {DefaultRetries} \cup (0..MaxRetries) :
         chat' = [pc |-> "loop", retries |-> retries, attempt |-> 1,
                  calls |-> <<>>, delay |-> InitialDelay, slept |-> <<>>,
                  result |-> "none"]
    /\ UNCHANGED <<pages, job, found, log, sent, reads, request, raised>>
    /\ UNCHANGED <<run, procs>>

\* One iteration of "for attempt in range(1, retries + 1)".
ChatAttempt ==
    /\ chat.pc = "loop"
    /\ chat.attempt <= chat.retries
    /\ \E outcome \in CallOutcomes :
         LET called == [chat EXCEPT !.calls = Append(@, outcome)]
         IN  chat' =
               IF outcome = "content"
               THEN [called EXCEPT !.pc = "returned", !.result = outcome]
               ELSE IF outcome \in CaughtErrors
                    THEN IF LastAttempt(chat.attempt, chat.retries)
                         THEN [called EXCEPT !.pc = "raised", !.result = outcome]
                         ELSE [called EXCEPT !.slept = Append(@, chat.delay),
                                             !.delay = @ * 2,
                                             !.attempt = @ + 1]
                    ELSE [called EXCEPT !.pc = "raised", !.result = outcome]
    /\ UNCHANGED <<pages, job, found, log, sent, reads, request, raised>>
    /\ UNCHANGED <<run, procs>>

\* The range is exhausted: the function ends without a return statement.
ChatFallThrough ==
    /\ chat.pc = "loop"
    /\ chat.attempt > chat.retries
    /\ chat' = [chat EXCEPT !.pc = "returned", !.result = "None"]
    /\ UNCHANGED <<pages, job, found, log, sent, reads, request, raised>>
    /\ UNCHANGED <<run, procs>>

NextChat == ChatCall \/ ChatAttempt \/ ChatFallThrough

\* Each API call returns or raises (the client has a timeout) and each sleep
\* ends, so the loop keeps taking its next step.
SpecChat ==
    /\ Init
    /\ [][NextChat]_vars
    /\ WF_vars(ChatAttempt)
    /\ WF_vars(ChatFallThrough)

----------------------------------------------------------------------------
\* What holds of every state of a _chat_completion call, and of process_pdf.
ChatBounded ==
    /\ Len(chat.calls) <= chat.retries
    /\ chat.pc # "idle" => Len(chat.calls) \in {chat.attempt - 1, chat.attempt}
    /\ \A i \in 1..(Len(chat.calls) - 1) : chat.calls[i] \in CaughtErrors
    /\ chat.pc = "loop" =>
          /\ \A i \in 1..Len(chat.calls) : chat.calls[i] \in CaughtErrors
          /\ Len(chat.slept) = Len(chat.calls)
    /\ (chat.pc = "returned" /\ chat.retries > 0) =>
          /\ chat.result = "content"
          /\ chat.calls[Len(chat.calls)] = "content"
    /\ chat.pc = "raised" =>
          /\ chat.result = chat.calls[Len(chat.calls)]
          /\ chat.result # "content"
          /\ chat.result \in CaughtErrors => Len(chat.calls) = chat.retries
    /\ chat.pc = "idle" =>
          \A ps \in StoresBeforeRuns, res_num \in ResNums, edition \in Editions,
             fail \in FailPoints :
             \A doc \in JobDocuments(res_num, edition) :
                process_pdf(ps, doc, res_num, edition, fail).reads.gpt <= 1

\* C18 (bounded extractor retry): _chat_completion makes at most `retries`
\* attempts (3 by default); it returns at the first attempt that succeeds and
\* makes no call after it; when it raises, it raises the error of the last
\* attempt it made, after `retries` attempts if the error is one it catches;
\* every call of it ends; and process_pdf invokes the extractor at most once,
\* whatever fails.
C18_BoundedRetry ==
    /\ []ChatBounded
    /\ (chat.pc = "loop") ~> (chat.pc \in {"returned", "raised"})

\* The default three attempts all failed with errors the loop catches; the
\* last one was raised, after two sleeps.
C18_Witness ==
    /\ chat.pc = "raised"
    /\ chat.retries = DefaultRetries
    /\ Len(chat.calls) = DefaultRetries
    /\ chat.result = "APITimeoutError"
    /\ chat.calls[1] = "RateLimitError"
    /\ chat.slept = <<InitialDelay, InitialDelay * 2>>

----------------------------------------------------------------------------
(* Staff at the database: status options as the database names them, and the *)
(* confirmed_booking checkbox                                               *)

\* The names the status options may carry in the database; the pipeline reads
\* them through .lower() in one place and as they are in another.
StatusOptionNames == StaffStatuses \cup {"Paid", "Invoice_sent", "Closed"}

\* Staff move a reservation's page to a status option.
StaffSetStatusOption ==
    /\ job = NoJob
    /\ \E res_num \in ResNums, s \in StatusOptionNames :
         \E i \in Matches(pages, res_num) :
            pages' = [pages EXCEPT ![i].props = Patch(@, [status |-> s])]
    /\ UNCHANGED <<job, found, log, sent, reads, request, raised>>
    /\ UNCHANGED <<run, procs, chat>>

\* Staff tick the confirmed_booking checkbox of a reservation's page.
StaffConfirmBooking ==
    /\ job = NoJob
    /\ \E res_num \in ResNums :
         \E i \in Matches(pages, res_num) :
            /\ ~pages[i].props["confirmed_booking"]
            /\ pages' = [pages EXCEPT
                            ![i].props = Patch(@, [confirmed_booking |-> TRUE])]
    /\ UNCHANGED <<job, found, log, sent, reads, request, raised>>
    /\ UNCHANGED <<run, procs, chat>>

NextStaff == ProcessPdf \/ Return \/ StaffSetStatusOption \/ StaffConfirmBooking

SpecStaff == Init /\ [][NextStaff]_vars

----------------------------------------------------------------------------
\* C19 as claimed (consistent status reading): for every stored status whose
\* lower-cased name is invoice_sent or paid, whatever its letter case in the
\* store, an update with a newer edition does not send the status column and
\* leaves the stored status as it was.
C19_LockReadsAsSkipTest ==
    [][ ( /\ Called
          /\ HasRecord(pages, job'.res_num)
          /\ Lower(StoredStatus(pages, job'.res_num)) \in HardTerminalSet
          /\ job'.edition > StoredEdition(pages, job'.res_num) )
        => /\ "status" \notin DOMAIN request'.props
           /\ StoredStatus(pages', job'.res_num) = StoredStatus(pages, job'.res_num)
      ]_vars

----------------------------------------------------------------------------
\* C20 as claimed (frame of an update): an update changes only the stored
\* columns whose fields are in the payload handed to update_notion_entry;
\* every other column of the page, a confirmed_booking flag set by staff
\* included, and its blocks are the same after the call; for a cancellation
\* the columns that may change are booking_num, edition and status.
C20_UpdateFrame ==
    [][ (Called /\ request'.op = "update") =>
        LET old == pages[request'.page_id]
            new == pages'[request'.page_id]
            written == {FIELD_MAP[k][1] : k \in MappedKeys(request'.data)}
        IN  /\ \A col \in DOMAIN old.props :
                  col \notin written => new.props[col] = old.props[col]
            /\ new.blocks = old.blocks
            /\ job'.pdf.status = "cancelled" =>
                  written = {"booking_num", "edition", "status"}
      ]_vars

----------------------------------------------------------------------------
\* C21 (at-most-once emission across runs): a file of downloads/ is never
\* removed; a job that fetch_new_emails emits is for the file
\* RES_<res>_<edition>.pdf, which is not in downloads/ before the message is
\* examined and is there afterwards; so no later Gmail-mode run emits a job
\* for a pair whose PDF was downloaded once, whether or not processing it
\* ever put the edition in the store.
C21_EmittedAtMostOnce ==
    [][ /\ run.files \subseteq run'.files
        /\ run'.pc = "fetch" => run'.files \subseteq run'.existing_files
        /\ (run.pc = "fetch" /\ run'.pc = "fetch") =>
              \A i \in (Len(run.downloaded) + 1)..Len(run'.downloaded) :
                 LET j == run'.downloaded[i]
                 IN  /\ j.file_path = FileName(j.reservation_number, j.edition)
                     /\ j.file_path \notin run.files
                     /\ j.file_path \in run'.files
      ]_vars

\* A later run examines a message for a pair whose PDF an earlier run
\* downloaded and whose processing never put a record in the store: the
\* pre-filter lets it through, the file name stops it, no job is emitted.
C21_Witness ==
    /\ run.pc = "fetch"
    /\ run.examined = 1
    /\ run.msg.matched
    /\ ~HasRecord(pages, run.msg.res_num)
    /\ FileName(run.msg.res_num, run.msg.edition) \in run.files
    /\ run.msg.edition > 0
    /\ run.downloaded = <<>>

----------------------------------------------------------------------------
\* The store after process_pdf on one document and then on another, for the
\* reservation number r, every collaborator call succeeding.
AfterBoth(ps, r, first_doc, first_ed, second_doc, second_ed) ==
    process_pdf(process_pdf(ps, first_doc, r, first_ed, "none").pages,
                second_doc, r, second_ed, "none").pages

\* C22 (order independence): from a store with no record of a reservation
\* number, for every two documents of that number with distinct asserted
\* editions, process_pdf on them in either order, every extraction and store
\* call succeeding, leaves one record whose edition is the larger of the two
\* and whose status is the status of the larger-edition document.
C22_OrderIndependent ==
    \A r \in ResNums :
        (job = NoJob /\ ~HasRecord(pages, r)) =>
            \A lo \in Editions, hi \in Editions :
                lo < hi =>
                    \A lo_doc \in Documents, hi_doc \in Documents :
                        LET up == AfterBoth(pages, r, lo_doc, lo, hi_doc, hi)
                            down == AfterBoth(pages, r, hi_doc, hi, lo_doc, lo)
                        IN  /\ Cardinality(RecordsOf(up, r)) = 1
                            /\ Cardinality(RecordsOf(down, r)) = 1
                            /\ StoredEdition(up, r) = hi
                            /\ StoredEdition(down, r) = hi
                            /\ StoredStatus(up, r) = hi_doc.status
                            /\ StoredStatus(down, r) = hi_doc.status

\* The larger edition came first and created the record; the smaller one,
\* a cancellation, came second and was skipped: the record keeps the larger
\* edition and its status.
C22_Witness ==
    /\ Outcome = "skip_old_edition"
    /\ job.pdf.status = "cancelled"
    /\ job.edition < found.stored_ed
    /\ found.stored_ed = MaxEdition
    /\ StoredEdition(pages, job.res_num) = MaxEdition
    /\ StoredStatus(pages, job.res_num) = "updated"
    /\ pages[Len(pages)].blocks # <<>>

====
